---- MODULE Spec2Model ----
(***************************************************************************)
(* Model of axuy/view.py: View.__init__ builds the 12x12x9 occupancy grid  *)
(* from 16 tiles of map.npy, collects the face anchors of the three planes *)
(* in extended space, emits the vertex list and places the camera by       *)
(* rejection sampling.                                                     *)
(***************************************************************************)
EXTENDS Integers, Sequences, FiniteSets

VARIABLES pc, SPACE, mapid, descending, stacked, visited, cur, tn,
          oxy, oyz, ozx, space, vertices, xyz, camera

vars == <<pc, SPACE, mapid, descending, stacked, visited, cur, tn,
          oxy, oyz, ozx, space, vertices, xyz, camera>>

----------------------------------------------------------------------------
(* Program constants *)

\* number of tiles stored in map.npy
NumTiles == 16
\* number of booleans of one tile, SPACE[i].size
TileSize == 81
\* .reshape(4, 4, 3, 3, 3, 3)
Shape == <<4, 4, 3, 3, 3, 3>>
\* np.zeros([12, 12, 9])
GridX == 12
GridY == 12
GridZ == 9

\* resolution of random(): it returns r/RandRes for r in 0..RandRes-1
RandRes == 2

\* value of the loop variable while no occupied entry is being processed
NoEntry == -1

ShapeSize == Shape[1] * Shape[2] * Shape[3] * Shape[4] * Shape[5] * Shape[6]

Cells == (0..(GridX-1)) \X (0..(GridY-1)) \X (0..(GridZ-1))

----------------------------------------------------------------------------
(* Module-level data *)

OXY == << <<0, 0, 0>>, <<1, 0, 0>>, <<1, 1, 0>>,
          <<1, 1, 0>>, <<0, 1, 0>>, <<0, 0, 0>> >>
OYZ == << <<0, 0, 0>>, <<0, 1, 0>>, <<0, 1, 1>>,
          <<0, 1, 1>>, <<0, 0, 1>>, <<0, 0, 0>> >>
OZX == << <<0, 0, 0>>, <<1, 0, 0>>, <<1, 0, 1>>,
          <<1, 0, 1>>, <<0, 0, 1>>, <<0, 0, 0>> >>

\* itertools.combinations_with_replacement((-1, 0, 1), 3): the triples of
\* elements at non-decreasing positions of the pool
combinations_with_replacement ==
    LET pool == <<-1, 0, 1>>
    IN  {<<pool[i], pool[j], pool[k]>> :
            <<i, j, k>> \in {p \in (1..3) \X (1..3) \X (1..3) :
                                p[1] <= p[2] /\ p[2] <= p[3]}}

\* itertools.permutations(c): c read through every permutation of positions
permutations(c) ==
    {<<c[p[1]], c[p[2]], c[p[3]]>> :
        p \in {q \in (1..3) \X (1..3) \X (1..3) :
                  q[1] # q[2] /\ q[2] # q[3] /\ q[1] # q[3]}}

\* the directions with the zero offset left out
NeighborsNonzero ==
    UNION {permutations(c) : c \in combinations_with_replacement \ {<<0, 0, 0>>}}

\* set(chain.from_iterable(map(permutations, combinations_with_replacement)))
NEIGHBORS == UNION {permutations(c) : c \in combinations_with_replacement}

----------------------------------------------------------------------------
(* Iteration order of a set: unspecified by the language, fixed by the     *)
(* build. The model draws the build's order from the ascending and the     *)
(* descending lexicographic order.                                         *)

LexLess(p, q) ==
    \/ p[1] < q[1]
    \/ p[1] = q[1] /\ p[2] < q[2]
    \/ p[1] = q[1] /\ p[2] = q[2] /\ p[3] < q[3]

RECURSIVE Ascending(_)
Ascending(S) ==
    IF S = {} THEN <<>>
    ELSE LET m == CHOOSE a \in S : \A b \in S : a = b \/ LexLess(a, b)
         IN  <<m>> \o Ascending(S \ {m})

Reverse(s) == [n \in 1..Len(s) |-> s[Len(s) + 1 - n]]

\* the elements of S in the order a for loop meets them
Iterate(S) == IF descending THEN Reverse(Ascending(S)) ELSE Ascending(S)

\* for tx, ty, tz in NEIGHBORS
NeighborSeq == Iterate(NEIGHBORS)

----------------------------------------------------------------------------
(* Line 65: stacking the tiles named by mapid and reshaping *)

\* SPACE[i] accepts i in [-NumTiles, NumTiles); numpy raises IndexError else
IndexInBounds(i) == -NumTiles <= i /\ i < NumTiles

\* numpy counts a negative index from the end
TileAt(i) == IF i < 0 THEN SPACE[i + NumTiles] ELSE SPACE[i]

\* np.stack raises on an empty list, reshape on a size other than 4*4*3*3*3*3
StackFails ==
    \/ \E k \in 1..Len(mapid) : ~IndexInBounds(mapid[k])
    \/ Len(mapid) = 0
    \/ Len(mapid) * TileSize # ShapeSize

\* the stacked array as its flat (C order) buffer
Stacked ==
    [n \in 0..(ShapeSize-1) |-> TileAt(mapid[(n \div TileSize) + 1])[n % TileSize]]

\* np.ndenumerate index of flat position n under Shape
Unravel(n) ==
    << n \div (Shape[2]*Shape[3]*Shape[4]*Shape[5]*Shape[6]),
       (n \div (Shape[3]*Shape[4]*Shape[5]*Shape[6])) % Shape[2],
       (n \div (Shape[4]*Shape[5]*Shape[6])) % Shape[3],
       (n \div (Shape[5]*Shape[6])) % Shape[4],
       (n \div Shape[6]) % Shape[5],
       n % Shape[6] >>

----------------------------------------------------------------------------
(* Lines 70-77: cell, next corner, translated anchors *)

\* the cell with e written where f belongs
CellOfTypo(idx) == <<idx[1]*3 + idx[4], idx[2]*3 + idx[5], idx[3]*3 + idx[5]>>

\* x, y, z = a*3 + d, b*3 + e, c*3 + f
CellOf(idx) == <<idx[1]*3 + idx[4], idx[2]*3 + idx[5], idx[3]*3 + idx[6]>>

\* i, j, k = (x+1) % 12, (y+1) % 12, (z+1) % 9
NextCorner(c) == <<(c[1]+1) % 12, (c[2]+1) % 12, (c[3]+1) % 9>>

\* the translation with the period 12 on every axis
TranslateOnePeriod(p, t) == <<p[1] + t[1]*12, p[2] + t[2]*12, p[3] + t[3]*12>>

\* xt, yt, zt = x + tx*12, y + ty*12, z + tz*9 (and the same for i, j, k)
Translate(p, t) == <<p[1] + t[1]*12, p[2] + t[2]*12, p[3] + t[3]*9>>

\* oxy.update(((xt, yt, zt), (xt, yt, kt)))
AnchorsXY(c, t) ==
    LET lo == Translate(c, t)
        hi == Translate(NextCorner(c), t)
    IN  {lo, <<lo[1], lo[2], hi[3]>>}

\* oyz.update(((xt, yt, zt), (it, yt, zt)))
AnchorsYZ(c, t) ==
    LET lo == Translate(c, t)
        hi == Translate(NextCorner(c), t)
    IN  {lo, <<hi[1], lo[2], lo[3]>>}

\* ozx.update(((xt, yt, zt), (xt, jt, zt)))
AnchorsZX(c, t) ==
    LET lo == Translate(c, t)
        hi == Translate(NextCorner(c), t)
    IN  {lo, <<lo[1], hi[2], lo[3]>>}

\* assignment in place of update
UpdateAssign(S, new) == new

\* set.update
Update(S, new) == S \cup new

----------------------------------------------------------------------------
(* Lines 80-82: vertices.extend(i+j for j in O) for i in the set *)

\* tuple + tuple: concatenation in place of the element-wise sum
VAddConcat(p, q) == p \o q

\* i+j with j a row of a float32 array: the element-wise sum
VAdd(p, q) == <<p[1] + q[1], p[2] + q[2], p[3] + q[3]>>

Extend(vs, anchors, O) ==
    vs \o [n \in 1..(Len(O) * Len(anchors)) |->
              VAdd(anchors[((n-1) \div Len(O)) + 1], O[((n-1) % Len(O)) + 1])]

----------------------------------------------------------------------------
(* Lines 90-92: random position and the cell it falls in *)

\* random() returns r/RandRes
Randoms == 0..(RandRes-1)

\* int(random())*12, ...: the truncation applied before the scaling
SampleTruncated(r) == <<0, 0, 0>>

\* random()*12, random()*12, random()*9 as numerators over RandRes
Sample(r) == <<r[1]*12, r[2]*12, r[3]*9>>

\* int(x), int(y), int(z)
IntCell(p) == <<p[1] \div RandRes, p[2] \div RandRes, p[3] \div RandRes>>

\* the loop condition negated
BlockedNegated(p) == space[IntCell(p)] = 0

\* the condition of the while loop: self.space[int(x)][int(y)][int(z)]
Blocked(p) == space[IntCell(p)] # 0

----------------------------------------------------------------------------
(* Inputs *)

Identity == [k \in 1..NumTiles |-> k - 1]

MapIds ==
    {Identity, Reverse(Identity)}
    \cup {[Identity EXCEPT ![1] = v] : v \in {-NumTiles - 1, -1, NumTiles}}
    \cup {SubSeq(Identity, 1, NumTiles - 1), Identity \o <<0>>, <<>>}

\* a tile with exactly the flat positions of S set
Tile(S) == [r \in 0..(TileSize-1) |-> r \in S]

\* tile libraries: tiles 0, 12 and 15 carry a pattern, the others are empty
Libraries ==
    {[i \in 0..(NumTiles-1) |->
        IF i = 0 THEN Tile(p0)
        ELSE IF i = 12 THEN Tile(p12)
        ELSE IF i = 15 THEN Tile(p15)
        ELSE Tile({})] :
     p0 \in {{}, {0}}, p12 \in {{}, {18}}, p15 \in {{}, {80}, {6}}}

----------------------------------------------------------------------------
(* State machine *)

Init ==
    /\ pc = "stack"
    /\ SPACE \in Libraries
    /\ mapid \in MapIds
    /\ descending \in BOOLEAN
    /\ stacked = <<>>
    /\ visited = {}
    /\ cur = NoEntry
    /\ tn = 0
    /\ oxy = {} /\ oyz = {} /\ ozx = {}
    /\ space = <<>>
    /\ vertices = <<>>
    /\ xyz = <<>>
    /\ camera = <<>>

\* line 65 raises
StackError ==
    /\ pc = "stack"
    /\ StackFails
    /\ pc' = "error"
    /\ UNCHANGED <<SPACE, mapid, descending, stacked, visited, cur, tn,
                   oxy, oyz, ozx, space, vertices, xyz, camera>>

\* lines 65-67
Stack ==
    /\ pc = "stack"
    /\ ~StackFails
    /\ stacked' = Stacked
    /\ oxy' = {} /\ oyz' = {} /\ ozx' = {}
    /\ space' = [c \in Cells |-> 0]
    /\ pc' = "scan"
    /\ UNCHANGED <<SPACE, mapid, descending, visited, cur, tn, vertices, xyz, camera>>

\* occupied entries the enumeration has not reached
Pending == {n \in DOMAIN stacked : stacked[n] /\ n \notin visited}

\* lines 68-71: np.ndenumerate advances to the next occupied entry
NextEntry ==
    /\ pc = "scan" /\ cur = NoEntry
    /\ Pending # {}
    /\ LET n == CHOOSE m \in Pending : \A o \in Pending : m <= o
       IN  /\ cur' = n
           /\ visited' = visited \cup {n}
    /\ tn' = 0
    /\ UNCHANGED <<pc, SPACE, mapid, descending, stacked, oxy, oyz, ozx, space,
                   vertices, xyz, camera>>

\* the same step when the occupied entries are visited in any order
AnyEntry ==
    /\ pc = "scan" /\ cur = NoEntry
    /\ \E n \in Pending :
          /\ cur' = n
          /\ visited' = visited \cup {n}
    /\ tn' = 0
    /\ UNCHANGED <<pc, SPACE, mapid, descending, stacked, oxy, oyz, ozx, space,
                   vertices, xyz, camera>>

\* lines 72-77: one iteration of the loop over NEIGHBORS
VisitNeighbor ==
    /\ pc = "scan" /\ cur # NoEntry
    /\ tn < Len(NeighborSeq)
    /\ LET c == CellOf(Unravel(cur))
           t == NeighborSeq[tn + 1]
       IN  /\ oxy' = Update(oxy, AnchorsXY(c, t))
           /\ oyz' = Update(oyz, AnchorsYZ(c, t))
           /\ ozx' = Update(ozx, AnchorsZX(c, t))
    /\ tn' = tn + 1
    /\ UNCHANGED <<pc, SPACE, mapid, descending, stacked, visited, cur, space,
                   vertices, xyz, camera>>

\* line 78: self.space[x][y][z] = 1
MarkCell ==
    /\ pc = "scan" /\ cur # NoEntry
    /\ tn = Len(NeighborSeq)
    /\ space' = [space EXCEPT ![CellOf(Unravel(cur))] = 1]
    /\ cur' = NoEntry
    /\ UNCHANGED <<pc, SPACE, mapid, descending, stacked, visited, tn, oxy, oyz, ozx,
                   vertices, xyz, camera>>

\* line 79: the enumeration is exhausted
ScanDone ==
    /\ pc = "scan" /\ cur = NoEntry
    /\ Pending = {}
    /\ vertices' = <<>>
    /\ pc' = "meshXY"
    /\ UNCHANGED <<SPACE, mapid, descending, stacked, visited, cur, tn, oxy, oyz, ozx,
                   space, xyz, camera>>

\* line 80
EmitXY ==
    /\ pc = "meshXY"
    /\ vertices' = Extend(vertices, Iterate(oxy), OXY)
    /\ pc' = "meshYZ"
    /\ UNCHANGED <<SPACE, mapid, descending, stacked, visited, cur, tn, oxy, oyz, ozx,
                   space, xyz, camera>>

\* line 81
EmitYZ ==
    /\ pc = "meshYZ"
    /\ vertices' = Extend(vertices, Iterate(oyz), OYZ)
    /\ pc' = "meshZX"
    /\ UNCHANGED <<SPACE, mapid, descending, stacked, visited, cur, tn, oxy, oyz, ozx,
                   space, xyz, camera>>

\* line 82
EmitZX ==
    /\ pc = "meshZX"
    /\ vertices' = Extend(vertices, Iterate(ozx), OZX)
    /\ pc' = "buffer"
    /\ UNCHANGED <<SPACE, mapid, descending, stacked, visited, cur, tn, oxy, oyz, ozx,
                   space, xyz, camera>>

\* line 87: np.stack(vertices) raises on an empty list
BufferError ==
    /\ pc = "buffer"
    /\ vertices = <<>>
    /\ pc' = "error"
    /\ UNCHANGED <<SPACE, mapid, descending, stacked, visited, cur, tn, oxy, oyz, ozx,
                   space, vertices, xyz, camera>>

\* lines 84-90: program, buffer, vertex array, and the first sample
Buffer ==
    /\ pc = "buffer"
    /\ vertices # <<>>
    /\ \E r \in Randoms \X Randoms \X Randoms : xyz' = Sample(r)
    /\ pc' = "place"
    /\ UNCHANGED <<SPACE, mapid, descending, stacked, visited, cur, tn, oxy, oyz, ozx,
                   space, vertices, camera>>

\* lines 91-92: the sampled cell is occupied, sample again
Resample(r) ==
    /\ pc = "place"
    /\ Blocked(xyz)
    /\ xyz' = Sample(r)
    /\ UNCHANGED <<pc, SPACE, mapid, descending, stacked, visited, cur, tn, oxy, oyz,
                   ozx, space, vertices, camera>>

Retry == \E r \in Randoms \X Randoms \X Randoms : Resample(r)

\* line 93: the loop exits, self.camera = Picobot(x, y, z, self.space)
CreateCamera ==
    /\ pc = "place"
    /\ ~Blocked(xyz)
    /\ camera' = xyz
    /\ pc' = "done"
    /\ UNCHANGED <<SPACE, mapid, descending, stacked, visited, cur, tn, oxy, oyz, ozx,
                   space, vertices, xyz>>

Build ==
    \/ StackError \/ Stack
    \/ VisitNeighbor \/ MarkCell \/ ScanDone
    \/ EmitXY \/ EmitYZ \/ EmitZX
    \/ BufferError \/ Buffer
    \/ Retry \/ CreateCamera

Next == NextEntry \/ Build

Spec == Init /\ [][Next]_vars

\* the occupied entries visited in any order
NextShuffled == AnyEntry \/ Build

SpecShuffled == Init /\ [][NextShuffled]_vars

\* the interpreter keeps running, and every value of random() keeps coming
FairSpec ==
    /\ Spec
    /\ WF_vars(CreateCamera)
    /\ \A r \in Randoms \X Randoms \X Randoms : WF_vars(Resample(r))

----------------------------------------------------------------------------
(* Stages of the construction *)

\* the loop of lines 68-78 has run to its end
ScanFinished ==
    pc \in {"meshXY", "meshYZ", "meshZX", "buffer", "place", "done"}
        \/ (pc = "error" /\ stacked # <<>>)

\* the three loops of lines 80-82 have run to their end
MeshBuilt == pc \in {"buffer", "place", "done"} \/ (pc = "error" /\ stacked # <<>>)

\* the cells set in self.space
OccupiedCells == {c \in Cells : space[c] # 0}

\* the index tuples np.ndenumerate yields under Shape
Indices ==
    (0..(Shape[1]-1)) \X (0..(Shape[2]-1)) \X (0..(Shape[3]-1))
        \X (0..(Shape[4]-1)) \X (0..(Shape[5]-1)) \X (0..(Shape[6]-1))

\* every combination of {-1, 0, 1} on the three axes
Offsets == {-1, 0, 1} \X {-1, 0, 1} \X {-1, 0, 1}

\* the directions the inner loop has gone through for the current entry
Scanned == {NeighborSeq[k] : k \in 1..tn}

\* the inner loop over NEIGHBORS has just ended for the current entry
InnerLoopDone == pc = "scan" /\ cur # NoEntry /\ tn = Len(NeighborSeq)

----------------------------------------------------------------------------
(* C1 *)

\* mapid names 16 tiles, each in [0, 16)
WellFormed ==
    Len(mapid) = 16 /\ \A k \in 1..Len(mapid) : mapid[k] \in 0..15

\* every index maps to a cell of the grid and every cell is the image of
\* exactly one index
IndexMapOneToOne ==
    /\ \A idx \in Indices : CellOf(idx) \in Cells
    /\ {CellOf(idx) : idx \in Indices} = Cells
    /\ Cardinality(Indices) = Cardinality(Cells)

\* C1: for a mapid of 16 valid identifiers, once the grid is built the cell
\* (a*3+d, b*3+e, c*3+f) is occupied exactly when entry (c,d,e,f) of the
\* tile named at position a*4+b of mapid is set; the map from indices to
\* cells is one-to-one onto [0,12)x[0,12)x[0,9).
C1_GridMatchesTiles ==
    /\ IndexMapOneToOne
    /\ (ScanFinished /\ WellFormed) =>
          \A idx \in Indices :
              SPACE[mapid[idx[1]*4 + idx[2] + 1]]
                   [idx[3]*27 + idx[4]*9 + idx[5]*3 + idx[6]]
                <=> space[<<idx[1]*3 + idx[4], idx[2]*3 + idx[5],
                            idx[3]*3 + idx[6]>>] # 0

C1_Witness ==
    /\ ScanFinished /\ WellFormed
    /\ space[<<9, 11, 0>>] # 0 /\ space[<<11, 0, 0>>] # 0

----------------------------------------------------------------------------
(* C2 *)

\* C2: when the camera is created its position lies in
\* [0,12)x[0,12)x[0,9) and the cell of its integer parts is unoccupied.
C2_CameraInFreeCell ==
    pc = "done" =>
        /\ 0 <= camera[1] /\ camera[1] < 12 * RandRes
        /\ 0 <= camera[2] /\ camera[2] < 12 * RandRes
        /\ 0 <= camera[3] /\ camera[3] < 9 * RandRes
        /\ space[<<camera[1] \div RandRes, camera[2] \div RandRes,
                   camera[3] \div RandRes>>] = 0

\* the camera was created in a grid whose cell (0,0,0), which random() can hit,
\* is occupied
C2_Witness == pc = "done" /\ space[<<0, 0, 0>>] # 0

----------------------------------------------------------------------------
(* C3 *)

\* no entry of the stacked tile data is set
EmptyGrid == stacked # <<>> /\ \A n \in DOMAIN stacked : ~stacked[n]

\* C3: for an empty grid the construction does not enter an error state, the
\* three face sets stay empty and the vertex list holds no face.
C3_EmptyGridBuilds ==
    EmptyGrid =>
        /\ pc # "error"
        /\ oxy = {} /\ oyz = {} /\ ozx = {}
        /\ vertices = <<>>

----------------------------------------------------------------------------
(* C4 *)

\* C4: a mapid that has not exactly 16 elements, or holds an identifier
\* outside [0,16), is never turned into a grid: the construction stops in
\* the error state before any array, cell or anchor exists.
C4_MalformedRejected ==
    ~WellFormed =>
        /\ pc \in {"stack", "error"}
        /\ stacked = <<>> /\ space = <<>>
        /\ oxy = {} /\ oyz = {} /\ ozx = {}

----------------------------------------------------------------------------
(* C5 *)

\* the anchors one occupied cell contributes to each set
ProducedXY(c) == UNION {AnchorsXY(c, t) : t \in NEIGHBORS}
ProducedYZ(c) == UNION {AnchorsYZ(c, t) : t \in NEIGHBORS}
ProducedZX(c) == UNION {AnchorsZX(c, t) : t \in NEIGHBORS}

\* C5: for an occupied cell at the high extreme of an axis, the set of the
\* plane across that axis holds the wrapped anchor at 0 and the anchor at
\* the axis length, and the latter is an anchor the cell at 0 produces.
C5_SeamJoined ==
    ScanFinished =>
        \A c \in OccupiedCells :
            /\ c[1] = 11 =>
                  /\ <<0, c[2], c[3]>> \in oyz
                  /\ <<12, c[2], c[3]>> \in oyz
                  /\ <<12, c[2], c[3]>> \in ProducedYZ(<<0, c[2], c[3]>>)
            /\ c[2] = 11 =>
                  /\ <<c[1], 0, c[3]>> \in ozx
                  /\ <<c[1], 12, c[3]>> \in ozx
                  /\ <<c[1], 12, c[3]>> \in ProducedZX(<<c[1], 0, c[3]>>)
            /\ c[3] = 8 =>
                  /\ <<c[1], c[2], 0>> \in oxy
                  /\ <<c[1], c[2], 9>> \in oxy
                  /\ <<c[1], c[2], 9>> \in ProducedXY(<<c[1], c[2], 0>>)

\* cells at both extremes of X are occupied, and a cell at the high extreme
\* of every axis
C5_Witness ==
    /\ ScanFinished
    /\ space[<<0, 0, 0>>] # 0 /\ space[<<11, 0, 0>>] # 0
    /\ space[<<11, 11, 8>>] # 0

----------------------------------------------------------------------------
(* C6 *)

\* the run of six vertices number q (from 0) of the group starting after
\* `base` vertices is an anchor of S added to the six rows of O
RunIsQuad(base, q, S, O) ==
    LET a == vertices[base + 6*q + 1]
    IN  /\ a \in S
        /\ \A r \in 1..6 :
              vertices[base + 6*q + r] = <<a[1] + O[r][1], a[2] + O[r][2], a[3] + O[r][3]>>

\* the group of S starts after `base` vertices, has one run per anchor of S
GroupOf(base, S, O) ==
    /\ \A q \in 0..(Cardinality(S) - 1) : RunIsQuad(base, q, S, O)
    /\ {vertices[base + 6*q + 1] : q \in 0..(Cardinality(S) - 1)} = S

\* C6: the vertex list has 6 x (|XY| + |YZ| + |ZX|) vertices: the XY group,
\* then the YZ group, then the ZX group, each with one run of six vertices
\* per anchor of its set, the anchor added to the rows of the template.
C6_VertexLayout ==
    MeshBuilt =>
        /\ Len(vertices) = 6 * (Cardinality(oxy) + Cardinality(oyz) + Cardinality(ozx))
        /\ GroupOf(0, oxy, OXY)
        /\ GroupOf(6 * Cardinality(oxy), oyz, OYZ)
        /\ GroupOf(6 * (Cardinality(oxy) + Cardinality(oyz)), ozx, OZX)

C6_Witness == MeshBuilt /\ Cardinality(OccupiedCells) >= 2 /\ Len(vertices) > 0

----------------------------------------------------------------------------
(* C7 *)

\* the cells of the set entries of the tile data, read from the inputs alone
InputCells ==
    {CellOf(Unravel(p[1] * TileSize + p[2])) :
        p \in {q \in (0..(Len(mapid)-1)) \X (0..(TileSize-1)) :
                  TileAt(mapid[q[1] + 1])[q[2]]}}

\* C7: whatever the order in which the occupied entries and the directions
\* are visited, the grid and the three face sets at the end are the ones the
\* inputs determine: the cells of the set entries, and the union over these
\* cells and all directions of the anchors each contributes.
C7_OrderIndependent ==
    ScanFinished =>
        LET cells == InputCells
        IN  /\ \A c \in Cells : space[c] = IF c \in cells THEN 1 ELSE 0
            /\ oxy = UNION {ProducedXY(c) : c \in cells}
            /\ oyz = UNION {ProducedYZ(c) : c \in cells}
            /\ ozx = UNION {ProducedZX(c) : c \in cells}

\* three occupied entries were visited, the directions in descending order
C7_Witness ==
    /\ ScanFinished
    /\ Cardinality(visited) >= 3
    /\ descending

----------------------------------------------------------------------------
(* C8 *)

\* C8 as stated: the directions scanned for an occupied cell are the 26
\* nonzero combinations of {-1, 0, 1}.
C8_TwentySixDirections ==
    InnerLoopDone =>
        /\ Cardinality(Scanned) = 26
        /\ Scanned = Offsets \ {<<0, 0, 0>>}

\* C8 amended: the directions scanned for an occupied cell are the 27
\* combinations of {-1, 0, 1} on the three axes, the zero offset included.
C8_TwentySevenDirections ==
    InnerLoopDone =>
        /\ Cardinality(Scanned) = 27
        /\ Scanned = Offsets
        /\ <<0, 0, 0>> \in Scanned

C8_Witness == InnerLoopDone /\ Cardinality(visited) >= 2

----------------------------------------------------------------------------
(* C9 *)

\* C9: while the placement loop runs on a grid with an unoccupied cell, under
\* fair sampling the loop is left and the camera is created.
C9_PlacementTerminates ==
    (pc = "place" /\ \E c \in Cells : space[c] = 0) ~> (pc = "done")

\* the loop is rejecting a sample while a free cell exists
C9_Witness ==
    /\ pc = "place"
    /\ space[<<xyz[1] \div RandRes, xyz[2] \div RandRes, xyz[3] \div RandRes>>] # 0
    /\ \E c \in Cells : space[c] = 0

----------------------------------------------------------------------------
(* C10 *)

\* C10: every translated copy of an occupied cell has its low and its high
\* face in each set: (xt,yt,zt) and (xt,yt,zt+1) in XY, (xt,yt,zt) and
\* (xt+1,yt,zt) in YZ, (xt,yt,zt) and (xt,yt+1,zt) in ZX.
C10_CopiesClosed ==
    ScanFinished =>
        \A c \in OccupiedCells : \A t \in NEIGHBORS :
            LET xt == c[1] + 12 * t[1]
                yt == c[2] + 12 * t[2]
                zt == c[3] + 9 * t[3]
            IN  /\ <<xt, yt, zt>> \in oxy /\ <<xt, yt, zt + 1>> \in oxy
                /\ <<xt, yt, zt>> \in oyz /\ <<xt + 1, yt, zt>> \in oyz
                /\ <<xt, yt, zt>> \in ozx /\ <<xt, yt + 1, zt>> \in ozx

====
